---- MODULE Spec2Model ----
(***************************************************************************)
(* MCS-Agent: the chat pass-through service.                               *)
(*                                                                         *)
(*   app/main.py                 health_check                              *)
(*   app/routers/chat.py         ChatRequest, ChatResponse, chat           *)
(*   app/services/chat_model.py  ChatModelHyperparams, ChatModelService    *)
(*   app/utils/exceptions.py     ChatModelError                            *)
(*                                                                         *)
(* Conventions.  A Python string is a sequence of tokens, so that          *)
(* concatenation, emptiness and containment are computed.  An optional     *)
(* value (X | None) is a set with at most one element: {} is None.  A      *)
(* float field is held in tenths (0.7 is 7), which keeps every declared    *)
(* bound and default exact.                                                *)
(***************************************************************************)
EXTENDS Integers, Sequences, FiniteSets, TLC

\* -------------------------------------------------------------- state

VARIABLES
    pc,        \* per request task: "idle", "awaiting", "hung" or "done"
    body,      \* per request: the body received, as sent
    request,   \* per request: the handler's validated `request`
    service,   \* per request: the handler's `service`
    upstream,  \* per request: the keyword arguments of each create() call issued
    reply,     \* per request: what the awaited create() call produced
    response,  \* per request: the HTTP response
    events,    \* per request task, in order: the log records it emitted and
               \* the return or raise that ended its handler
    health     \* the last answer of GET /, with what was going on when it was given

vars == <<pc, body, request, service, upstream, reply, response, events, health>>

\* ------------------------------------------------------------- bounds

NumReqs == 2        \* request tasks the server runs side by side
MaxChoices == 2     \* choices in one upstream completion
MaxMsgs == 1        \* messages in one request
MaxOverrides == 1   \* hyperparameter fields one payload sets explicitly

Reqs == 1..NumReqs

\* ---------------------------------------------------------- optionals

None == {}
Some(x) == {x}
Val(o) == CHOOSE v \in o : TRUE

\* Sequences over S of length 0..n.
SeqsUpTo(S, n) == UNION {[1..k -> S] : k \in 0..n}

\* Whether token t occurs in string s.
Contains(s, t) == \E i \in 1..Len(s) : s[i] = t

\* Whether string t occurs in string s as a substring.
HasSubstring(s, t) ==
    \E i \in 0..(Len(s) - Len(t)) : \A j \in 1..Len(t) : s[i + j] = t[j]

\* Whether string s starts with string p.
HasPrefix(s, p) == Len(s) >= Len(p) /\ SubSeq(s, 1, Len(p)) = p

\* ------------------------------------------------------ configuration

\* app/utils/config.py: the process-wide settings, read once at startup.
config == [llm_name |-> <<"default-llm">>,
           llm_base_url |-> <<"https://llm.example/v1">>,
           llm_api_key |-> <<"sk-secret">>]

\* ----------------------------------------------- ChatModelHyperparams

DeclaredFields == {"temperature", "max_tokens", "top_p", "frequency_penalty",
                   "presence_penalty", "n", "stop", "stream", "logprobs"}

\* The fields that carry ge/le constraints.
BoundedFields == {"temperature", "max_tokens", "top_p", "frequency_penalty",
                  "presence_penalty", "n", "logprobs"}

\* Field(ge=...)
FieldGe == [temperature |-> 0, max_tokens |-> 1, top_p |-> 0,
            frequency_penalty |-> 0, presence_penalty |-> 0, n |-> 1,
            logprobs |-> 0]

\* The upstream API's own range for temperature, 0 to 2, in place of le=1.0.
MutFieldLe == [temperature |-> 20, max_tokens |-> 8192, top_p |-> 10,
               frequency_penalty |-> 10, presence_penalty |-> 10, n |-> 10,
               logprobs |-> 10]

\* Field(le=...)
FieldLe == [temperature |-> 10, max_tokens |-> 8192, top_p |-> 10,
            frequency_penalty |-> 10, presence_penalty |-> 10, n |-> 10,
            logprobs |-> 10]

\* Field(default=...)
FieldDefault == [temperature |-> 7, max_tokens |-> 1000, top_p |-> 10,
                 frequency_penalty |-> 0, presence_penalty |-> 0, n |-> 1,
                 stop |-> <<>>, stream |-> FALSE, logprobs |-> None]

\* A payload's keys: the declared fields and one key the model does not declare.
RawFields == DeclaredFields \cup {"seed"}

\* One field of a payload passes its constraints.  An absent key (and a null
\* logprobs) takes the default, which is not validated.
FieldValid(f, o) ==
    IF o = None \/ f \notin BoundedFields THEN TRUE
    ELSE FieldGe[f] <= Val(o) /\ Val(o) <= FieldLe[f]

HyperparamsValid(payload) == \A f \in DeclaredFields : FieldValid(f, payload[f])

\* The instance pydantic builds from a payload that passed: defaults filled in,
\* undeclared keys ignored (the model sets no `extra` policy).
ChatModelHyperparams(payload) ==
    [f \in DeclaredFields |->
        IF f = "logprobs" THEN payload[f]
        ELSE IF payload[f] = None THEN FieldDefault[f] ELSE Val(payload[f])]

\* model_dump(exclude_none=True): an unset logprobs is left out.
Mut_model_dump(hp) ==
    [f \in {g \in DeclaredFields : g # "logprobs" \/ hp[g] # None} |-> hp[f]]

\* BaseModel.model_dump(): one entry per declared field.
model_dump(hp) == [f \in DeclaredFields |-> hp[f]]

\* -------------------------------------------------------- ChatRequest

\* Schema validation of the body of POST /chat/.
ChatRequestValid(raw) ==
    IF raw.hyperparams = None THEN TRUE
    ELSE HyperparamsValid(Val(raw.hyperparams))

ChatRequest(raw) ==
    [messages |-> raw.messages,
     hyperparams |-> IF raw.hyperparams = None THEN None
                     ELSE Some(ChatModelHyperparams(Val(raw.hyperparams))),
     model_name |-> raw.model_name]

\* ----------------------------------------------------- ChatModelError

\* str(e) of an exception.
Str(e) == e.msg

ErrorPrefix == <<"Error chatting with model: ">>

\* The message built from repr-like text that names the exception's type.
MutChatModelError(e) ==
    [type |-> "ChatModelError", msg |-> ErrorPrefix \o <<e.type, ": ">> \o Str(e)]

\* ChatModelError(f"Error chatting with model: {e}")
ChatModelError(e) == [type |-> "ChatModelError", msg |-> ErrorPrefix \o Str(e)]

\* --------------------------------------------------- ChatModelService

\* Python truthiness of `str | None`.
Falsy(o) == IF o = None THEN TRUE ELSE Len(Val(o)) = 0

\* The conditional the wrong way round: a named model falls back to the
\* default and only the empty string is passed on.
MutChatModelServiceDefaultWins(hyperparams, model_name) ==
    [llm_name |-> IF Falsy(model_name) /\ model_name # None THEN Val(model_name)
                  ELSE config.llm_name,
     llm_base_url |-> config.llm_base_url,
     llm_api_key |-> config.llm_api_key,
     hyperparams |-> hyperparams]

\* A process-wide service built by the first request and reused by the rest.
MutChatModelServiceShared(hyperparams, model_name) ==
    IF \E q \in Reqs : service[q] # None
    THEN Val(service[CHOOSE q \in Reqs : service[q] # None])
    ELSE [llm_name |-> IF Falsy(model_name) THEN config.llm_name
                       ELSE Val(model_name),
          llm_base_url |-> config.llm_base_url,
          llm_api_key |-> config.llm_api_key,
          hyperparams |-> hyperparams]

\* ChatModelService.__init__
ChatModelService(hyperparams, model_name) ==
    [llm_name |-> IF Falsy(model_name) THEN config.llm_name ELSE Val(model_name),
     llm_base_url |-> config.llm_base_url,
     llm_api_key |-> config.llm_api_key,
     hyperparams |-> hyperparams]

\* The keyword arguments of self._client.chat.completions.create(...).
CreateKwargs(svc, messages) ==
    LET dump == IF svc.hyperparams # None THEN model_dump(Val(svc.hyperparams))
                ELSE <<>>
    IN  [k \in {"model", "messages"} \cup DOMAIN dump |->
            IF k = "model" THEN svc.llm_name
            ELSE IF k = "messages" THEN messages
            ELSE dump[k]]

\* ------------------------------------------------------- ChatResponse

\* The list rebuilt back to front.
MutChatResponse(choices) ==
    [i \in 1..Len(choices) |-> choices[Len(choices) + 1 - i]]

\* ChatResponse(choices=completion.choices): the list is rebuilt item by item.
ChatResponse(choices) == [i \in 1..Len(choices) |-> choices[i]]

\* ---------------------------------------------------------- responses

HealthPayload == [status |-> "healthy", service |-> "MCS-Agent"]

Ok200(choices) ==
    [status |-> 200, kind |-> "choices", choices |-> choices, detail |-> <<>>]

\* raise HTTPException(status_code=500, detail=str(e))
Http500(e) ==
    [status |-> 500, kind |-> "detail", choices |-> <<>>, detail |-> Str(e)]

\* The framework's answer to a body that fails schema validation.
Unprocessable422 ==
    [status |-> 422, kind |-> "validation", choices |-> <<>>, detail |-> <<>>]

\* The framework's answer to an exception the handler lets through.
Unhandled500 ==
    [status |-> 500, kind |-> "unhandled", choices |-> <<>>,
     detail |-> <<"Internal Server Error">>]

\* ------------------------------------------------------------- inputs

Hi == [role |-> "user", content |-> <<"hi">>]

MsgSeqs == SeqsUpTo({Hi}, MaxMsgs)

\* model_name: omitted or null, the empty string, a model's name.
ModelNames == {None, Some(<<>>), Some(<<"gpt-4o">>)}

\* A hyperparams payload that sets no key.
NoOverrides == [f \in RawFields |-> None]

\* The values tried for a key: both sides of each declared bound.
Samples(f) ==
    CASE f \in {"temperature", "top_p", "frequency_penalty", "presence_penalty"}
             -> {-1, 0, 10, 11}
      [] f = "max_tokens" -> {0, 1, 8192, 8193}
      [] f = "n" -> {0, 1, 10, 11}
      [] f = "logprobs" -> {-1, 0, 10, 11}
      [] f = "stop" -> {<<"END">>}
      [] f = "stream" -> {TRUE}
      [] f = "seed" -> {42}

\* The hyperparams payloads that set at most k keys.
RECURSIVE Overrides(_)
Overrides(k) ==
    IF k = 0 THEN {NoOverrides}
    ELSE LET P == Overrides(k - 1)
         IN  P \cup UNION {{[pf[1] EXCEPT ![pf[2]] = Some(v)] : v \in Samples(pf[2])} :
                             pf \in P \X RawFields}

\* Bodies of POST /chat/ for one request handled alone.
PayloadRequests ==
    [messages : MsgSeqs,
     hyperparams : {None} \cup {Some(h) : h \in Overrides(MaxOverrides)},
     model_name : ModelNames]

\* Bodies for requests handled side by side: pairwise different in model name,
\* hyperparameters and messages; the last one fails validation.
ConcRequests ==
    {[messages |-> <<Hi>>, hyperparams |-> None, model_name |-> None],
     [messages |-> <<>>, hyperparams |-> Some(NoOverrides),
      model_name |-> Some(<<"gpt-4o">>)],
     [messages |-> <<Hi, Hi>>,
      hyperparams |-> Some([NoOverrides EXCEPT !["stream"] = Some(TRUE)]),
      model_name |-> Some(<<"llama3">>)],
     [messages |-> <<Hi>>,
      hyperparams |-> Some([NoOverrides EXCEPT !["temperature"] = Some(15)]),
      model_name |-> None]}

Hello == [finish_reason |-> "stop", content |-> <<"hello">>]
Bye == [finish_reason |-> "length", content |-> <<"bye">>]

\* The choice lists an upstream completion may carry.
ChoiceSeqs == SeqsUpTo({Hello, Bye}, MaxChoices)
ConcChoiceSeqs == {<<Hello>>, <<Bye, Hello>>}

\* Exceptions the upstream call may raise: its type's name and its text.  The
\* second one's text repeats its type's name; the third one's text is empty.
UpstreamErrors ==
    {[type |-> "APIConnectionError", msg |-> <<"Connection error.">>],
     [type |-> "RateLimitError", msg |-> <<"RateLimitError", ": 429">>],
     [type |-> "APITimeoutError", msg |-> <<>>]}

\* What reading the result of a streamed call as a completion raises.
StreamError ==
    [type |-> "AttributeError",
     msg |-> <<"'AsyncStream' object has no attribute 'model_dump'">>]

\* Exceptions constructing the transport client may raise.
ClientErrors == {[type |-> "OpenAIError", msg |-> <<"client construction failed">>]}

\* -------------------------------------------------------------- start

Init ==
    /\ pc = [r \in Reqs |-> "idle"]
    /\ body = [r \in Reqs |-> None]
    /\ request = [r \in Reqs |-> None]
    /\ service = [r \in Reqs |-> None]
    /\ upstream = [r \in Reqs |-> <<>>]
    /\ reply = [r \in Reqs |-> None]
    /\ response = [r \in Reqs |-> None]
    /\ events = [r \in Reqs |-> <<>>]
    /\ health = None

\* ------------------------------------------------------------ logging

LogRecord(level, msg, extra) == [level |-> level, msg |-> msg, extra |-> extra]

ReceivedLog(req) ==
    LogRecord("INFO", "Received chat request",
              [message_count |-> Len(req.messages),
               model_name |-> req.model_name,
               has_hyperparams |-> req.hyperparams # None])

InitializedLog(svc) ==
    LogRecord("INFO", "Initialized ChatModelService",
              [model_name |-> svc.llm_name,
               base_url |-> svc.llm_base_url,
               hyperparams |-> IF svc.hyperparams # None
                               THEN Some(model_dump(Val(svc.hyperparams)))
                               ELSE None])

InitiatingLog(svc, messages) ==
    LogRecord("DEBUG", "Initiating chat completion",
              [model |-> svc.llm_name,
               message_count |-> Len(messages),
               hyperparams |-> IF svc.hyperparams # None
                               THEN model_dump(Val(svc.hyperparams))
                               ELSE <<>>])

CompletionReceivedLog(completion) ==
    LogRecord("DEBUG", "Chat completion received", [completion |-> completion])

CompletionSuccessfulLog(completion) ==
    LogRecord("INFO", "Chat completion successful",
              [model |-> completion.model,
               num_choices |-> Len(completion.choices),
               finish_reasons |-> [i \in 1..Len(completion.choices) |->
                                      completion.choices[i].finish_reason]])

CompletionFailedLog(svc, e) ==
    LogRecord("ERROR", "Chat completion failed",
              [model |-> svc.llm_name,
               error_type |-> e.type,
               error_message |-> Str(e)])

RequestCompletedLog(completion) ==
    LogRecord("INFO", "Chat request completed successfully",
              [num_choices |-> Len(completion.choices),
               model_used |-> completion.model])

RequestFailedLog(req, e) ==
    LogRecord("ERROR", "Chat request failed",
              [error_type |-> e.type,
               error_detail |-> Str(e),
               model_name |-> req.model_name])

\* The handler ends: it returns, raises HTTPException, or lets e through.
ReturnEvent(resp) == LogRecord("HTTP", "return ChatResponse", resp)
RaiseEvent(resp) == LogRecord("HTTP", "raise HTTPException", resp)
PropagateEvent(e) == LogRecord("HTTP", "exception propagates", e)

\* ----------------------------------------------------- except clauses

\* The except clause wrapping without logging.
MutAdapterExcept(svc, e) == [events |-> <<>>, raised |-> ChatModelError(e)]

\* ChatModelService.chat: `except Exception as e` logs and wraps.
AdapterExcept(svc, e) ==
    [events |-> <<CompletionFailedLog(svc, e)>>, raised |-> ChatModelError(e)]

\* The handler catching `Exception` instead of `ChatModelError`.
MutHandlerExcept(req, e) ==
    [events |-> <<RequestFailedLog(req, e), RaiseEvent(Http500(e))>>,
     response |-> Http500(e)]

\* The handler: `except ChatModelError as e` logs and raises the 500; any other
\* exception leaves the handler.
HandlerExcept(req, e) ==
    IF e.type = "ChatModelError"
    THEN [events |-> <<RequestFailedLog(req, e), RaiseEvent(Http500(e))>>,
          response |-> Http500(e)]
    ELSE [events |-> <<PropagateEvent(e)>>, response |-> Unhandled500]

\* ------------------------------------------------------------ actions

\* POST /chat/ with a body that fails schema validation: the framework answers
\* and the handler body never runs.
PostChatInvalid(r, raw) ==
    /\ pc[r] = "idle"
    /\ ~ChatRequestValid(raw)
    /\ body' = [body EXCEPT ![r] = Some(raw)]
    /\ response' = [response EXCEPT ![r] = Some(Unprocessable422)]
    /\ pc' = [pc EXCEPT ![r] = "done"]
    /\ UNCHANGED <<request, service, upstream, reply, events, health>>

\* POST /chat/ where constructing the transport client raises e: not a
\* ChatModelError, so the handler's except clause lets it through.
PostChatClientFails(r, raw, e) ==
    /\ pc[r] = "idle"
    /\ ChatRequestValid(raw)
    /\ LET req == ChatRequest(raw)
           out == HandlerExcept(req, e)
       IN  /\ body' = [body EXCEPT ![r] = Some(raw)]
           /\ request' = [request EXCEPT ![r] = Some(req)]
           /\ events' = [events EXCEPT ![r] = <<ReceivedLog(req)>> \o out.events]
           /\ response' = [response EXCEPT ![r] = Some(out.response)]
    /\ pc' = [pc EXCEPT ![r] = "done"]
    /\ UNCHANGED <<service, upstream, reply, health>>

\* POST /chat/ up to the handler's only suspension point: the request is logged,
\* the service built, and the create() call issued and awaited.
PostChat(r, raw) ==
    /\ pc[r] = "idle"
    /\ ChatRequestValid(raw)
    /\ LET req == ChatRequest(raw)
           svc == ChatModelService(req.hyperparams, req.model_name)
       IN  /\ body' = [body EXCEPT ![r] = Some(raw)]
           /\ request' = [request EXCEPT ![r] = Some(req)]
           /\ service' = [service EXCEPT ![r] = Some(svc)]
           /\ events' = [events EXCEPT
                            ![r] = <<ReceivedLog(req), InitializedLog(svc),
                                     InitiatingLog(svc, req.messages)>>]
           /\ upstream' = [upstream EXCEPT
                              ![r] = Append(@, CreateKwargs(svc, req.messages))]
    /\ pc' = [pc EXCEPT ![r] = "awaiting"]
    /\ UNCHANGED <<reply, response, health>>

\* Whether request r's call asked for a streamed result.
Streamed(r) ==
    LET kw == upstream[r][Len(upstream[r])]
    IN  "stream" \in DOMAIN kw /\ kw["stream"]

\* An exception e inside ChatModelService.chat's try block: its except clause,
\* then the handler's.
Fails(r, e) ==
    LET adapter == AdapterExcept(Val(service[r]), e)
        out == HandlerExcept(Val(request[r]), adapter.raised)
    IN  /\ events' = [events EXCEPT ![r] = @ \o adapter.events \o out.events]
        /\ response' = [response EXCEPT ![r] = Some(out.response)]
        /\ pc' = [pc EXCEPT ![r] = "done"]

\* The awaited call returns a completion with the given choices.
UpstreamReturns(r, choices) ==
    /\ pc[r] = "awaiting"
    /\ ~Streamed(r)
    /\ LET completion == [model |-> Val(service[r]).llm_name, choices |-> choices]
           resp == Ok200(ChatResponse(completion.choices))
       IN  /\ reply' = [reply EXCEPT ![r] = Some([kind |-> "completion",
                                                  choices |-> choices,
                                                  error |-> None])]
           /\ events' = [events EXCEPT
                            ![r] = @ \o <<CompletionReceivedLog(completion),
                                          CompletionSuccessfulLog(completion),
                                          RequestCompletedLog(completion),
                                          ReturnEvent(resp)>>]
           /\ response' = [response EXCEPT ![r] = Some(resp)]
    /\ pc' = [pc EXCEPT ![r] = "done"]
    /\ UNCHANGED <<body, request, service, upstream, health>>

\* The awaited call was made with stream=True and returns a stream, which has
\* no model_dump: the first log call after it raises inside the try block.
UpstreamStreams(r) ==
    /\ pc[r] = "awaiting"
    /\ Streamed(r)
    /\ reply' = [reply EXCEPT ![r] = Some([kind |-> "stream", choices |-> <<>>,
                                           error |-> None])]
    /\ Fails(r, StreamError)
    /\ UNCHANGED <<body, request, service, upstream, health>>

\* The call issued again after its first failure.
MutUpstreamRaises(r, e) ==
    /\ pc[r] = "awaiting"
    /\ reply' = [reply EXCEPT ![r] = Some([kind |-> "raise", choices |-> <<>>,
                                           error |-> Some(e)])]
    /\ IF Len(upstream[r]) < 2
       THEN /\ upstream' = [upstream EXCEPT ![r] = Append(@, @[1])]
            /\ UNCHANGED <<pc, body, request, service, response, events, health>>
       ELSE /\ Fails(r, e)
            /\ UNCHANGED <<body, request, service, upstream, health>>

\* The awaited call raises e.
UpstreamRaises(r, e) ==
    /\ pc[r] = "awaiting"
    /\ reply' = [reply EXCEPT ![r] = Some([kind |-> "raise", choices |-> <<>>,
                                           error |-> Some(e)])]
    /\ Fails(r, e)
    /\ UNCHANGED <<body, request, service, upstream, health>>

\* The awaited call never returns: nothing bounds it, the task stays suspended.
UpstreamHangs(r) ==
    /\ pc[r] = "awaiting"
    /\ pc' = [pc EXCEPT ![r] = "hung"]
    /\ UNCHANGED <<body, request, service, upstream, reply, response, events, health>>

\* A health check that reports the upstream's state.
Mut_health_check ==
    /\ health' = Some([status |-> IF \E r \in Reqs : pc[r] = "hung" THEN 503 ELSE 200,
                       payload |-> HealthPayload,
                       inflight |-> Cardinality({r \in Reqs :
                                                   pc[r] \in {"awaiting", "hung"}}),
                       failing |-> \E r \in Reqs :
                                      response[r] # None /\ Val(response[r]).status = 500])
    /\ UNCHANGED <<pc, body, request, service, upstream, reply, response, events>>

\* GET /
health_check ==
    /\ health' = Some([status |-> 200,
                       payload |-> HealthPayload,
                       inflight |-> Cardinality({r \in Reqs :
                                                   pc[r] \in {"awaiting", "hung"}}),
                       failing |-> \E r \in Reqs :
                                      response[r] # None /\ Val(response[r]).status = 500])
    /\ UNCHANGED <<pc, body, request, service, upstream, reply, response, events>>

\* What the task of request r may do, with bodies from raws and upstream
\* completions carrying one of choiceSeqs.
Task(r, raws, choiceSeqs) ==
    \/ pc[r] = "idle" /\ \E raw \in raws : PostChatInvalid(r, raw)
    \/ pc[r] = "idle" /\ \E raw \in raws, e \in ClientErrors :
                              PostChatClientFails(r, raw, e)
    \/ pc[r] = "idle" /\ \E raw \in raws : PostChat(r, raw)
    \/ pc[r] = "awaiting" /\ \E choices \in choiceSeqs : UpstreamReturns(r, choices)
    \/ UpstreamStreams(r)
    \/ \E e \in UpstreamErrors : UpstreamRaises(r, e)
    \/ UpstreamHangs(r)

\* The service with NumReqs request tasks interleaved at their suspension points.
Next ==
    \/ \E r \in Reqs : Task(r, ConcRequests, ConcChoiceSeqs)
    \/ health_check

Spec == Init /\ [][Next]_vars

\* One request handled alone, over the wide range of bodies and completions.
NextPayload ==
    \/ Task(1, PayloadRequests, ChoiceSeqs)
    \/ health_check

SpecPayload == Init /\ [][NextPayload]_vars

\* ------------------------------------------------------------- claims

\* Whether request r's task emitted a record or handler event with this text.
Emitted(r, msg) == \E k \in 1..Len(events[r]) : events[r][k].msg = msg

\* C1: when the upstream call of a validated request raises an exception with
\* text T, the request is answered 500 with detail exactly "Error chatting with
\* model: " followed by T; the detail contains T, names the exception's type
\* only if T does, and the handler returns no 200 for that request.
C1_UpstreamErrorIs500 ==
    \A r \in Reqs :
        (reply[r] # None /\ Val(reply[r]).kind = "raise") =>
            LET e == Val(Val(reply[r]).error)
                T == e.msg
            IN  /\ response[r] # None
                /\ Val(response[r]).status = 500
                /\ Val(response[r]).detail = <<"Error chatting with model: ">> \o T
                /\ HasSubstring(Val(response[r]).detail, T)
                /\ Contains(Val(response[r]).detail, e.type) => Contains(T, e.type)
                /\ ~Emitted(r, "return ChatResponse")

\* A connection error, whose text does not name its type, answered 500.
C1_Witness ==
    \E r \in Reqs :
        /\ reply[r] # None
        /\ Val(reply[r]).kind = "raise"
        /\ Val(Val(reply[r]).error).type = "APIConnectionError"
        /\ response[r] # None
        /\ Val(response[r]).status = 500

\* The model name of request r's upstream call.
CalledModel(r) == upstream[r][1]["model"]

\* C2 as stated: the upstream call carries the request's model_name whenever
\* model_name is set, whatever string it is, and the configured default exactly
\* when model_name is omitted or null.
C2_AnyStringOverrides ==
    \A r \in Reqs :
        upstream[r] # <<>> =>
            LET mn == Val(request[r]).model_name
            IN  /\ mn # None => CalledModel(r) = Val(mn)
                /\ mn = None => CalledModel(r) = config.llm_name

\* C2 as amended: the upstream call carries the request's model_name whenever
\* model_name is a non-empty string, and the configured default when model_name
\* is omitted, null or the empty string.
C2_NonEmptyOverrides ==
    \A r \in Reqs :
        upstream[r] # <<>> =>
            LET mn == Val(request[r]).model_name
            IN  IF mn # None /\ Val(mn) # <<>>
                THEN CalledModel(r) = Val(mn)
                ELSE CalledModel(r) = config.llm_name

\* A request with the empty string as model_name has called the default model.
C2_Witness ==
    \E r \in Reqs :
        /\ upstream[r] # <<>>
        /\ Val(request[r]).model_name = Some(<<>>)
        /\ CalledModel(r) = config.llm_name

\* C3: when the upstream call returns N choices, the request is answered 200
\* with exactly those N choices, in the same order and unchanged.
C3_ChoicesUnchanged ==
    \A r \in Reqs :
        (reply[r] # None /\ Val(reply[r]).kind = "completion") =>
            LET given == Val(reply[r]).choices
            IN  /\ response[r] # None
                /\ Val(response[r]).status = 200
                /\ Len(Val(response[r]).choices) = Len(given)
                /\ \A i \in 1..Len(given) : Val(response[r]).choices[i] = given[i]

\* A completion with two different choices answered 200.
C3_Witness ==
    \E r \in Reqs :
        /\ reply[r] # None
        /\ Val(reply[r]).kind = "completion"
        /\ Val(reply[r]).choices = <<Bye, Hello>>
        /\ response[r] # None
        /\ Val(response[r]).status = 200

\* C4: no request issues more than one upstream call; a request whose service
\* was built issues exactly one; and the failure of that call ends the request
\* with its 500 at once.
C4_NoRetry ==
    \A r \in Reqs :
        /\ Len(upstream[r]) <= 1
        /\ service[r] # None => Len(upstream[r]) = 1
        /\ (reply[r] # None /\ Val(reply[r]).kind = "raise") =>
               /\ pc[r] = "done"
               /\ response[r] # None
               /\ Val(response[r]).status = 500

\* A request whose one upstream call raised, ended.
C4_Witness ==
    \E r \in Reqs :
        /\ reply[r] # None
        /\ Val(reply[r]).kind = "raise"
        /\ Len(upstream[r]) = 1
        /\ pc[r] = "done"

\* Whether an optional number is absent or lies in lo..hi.
Within(o, lo, hi) == IF o = None THEN TRUE ELSE lo <= Val(o) /\ Val(o) <= hi

\* The declared bounds, floats in tenths.
InDeclaredBounds(h) ==
    /\ Within(h["temperature"], 0, 10)
    /\ Within(h["top_p"], 0, 10)
    /\ Within(h["frequency_penalty"], 0, 10)
    /\ Within(h["presence_penalty"], 0, 10)
    /\ Within(h["max_tokens"], 1, 8192)
    /\ Within(h["n"], 1, 10)
    /\ Within(h["logprobs"], 0, 10)

\* C5: a request whose hyperparameters hold a value outside its declared bounds
\* is answered 422 before the handler body runs: nothing is logged, no service
\* is built and no upstream call is made; a request whose hyperparameters are
\* all inside the bounds is not rejected.
C5_BoundsValidated ==
    \A r \in Reqs :
        (body[r] # None /\ Val(body[r]).hyperparams # None) =>
            IF InDeclaredBounds(Val(Val(body[r]).hyperparams))
            THEN /\ response[r] = None \/ Val(response[r]).status # 422
                 /\ request[r] # None
            ELSE /\ response[r] = Some(Unprocessable422)
                 /\ request[r] = None
                 /\ service[r] = None
                 /\ upstream[r] = <<>>
                 /\ events[r] = <<>>

\* A request with temperature 1.1 answered 422.
C5_Witness ==
    \E r \in Reqs :
        /\ body[r] # None
        /\ Val(body[r]).hyperparams # None
        /\ Val(Val(body[r]).hyperparams)["temperature"] = Some(11)
        /\ response[r] # None
        /\ Val(response[r]).status = 422

\* The value the call carries for field f of payload h.
Supplied(h, f) ==
    IF f = "logprobs" THEN h[f]
    ELSE IF h[f] # None THEN Val(h[f])
    ELSE CASE f = "temperature" -> 7
           [] f = "max_tokens" -> 1000
           [] f = "top_p" -> 10
           [] f = "frequency_penalty" -> 0
           [] f = "presence_penalty" -> 0
           [] f = "n" -> 1
           [] f = "stop" -> <<>>
           [] f = "stream" -> FALSE

\* C6: a call for a request without hyperparameters carries model and messages
\* only; a call for a request with hyperparameters carries, besides those,
\* exactly the nine declared fields, each with the supplied value or its
\* default.
C6_CallOptions ==
    \A r \in Reqs :
        upstream[r] # <<>> =>
            LET kw == upstream[r][1]
                hp == Val(body[r]).hyperparams
                nine == {"temperature", "max_tokens", "top_p", "frequency_penalty",
                         "presence_penalty", "n", "stop", "stream", "logprobs"}
            IN  IF hp = None
                THEN DOMAIN kw = {"model", "messages"}
                ELSE /\ DOMAIN kw = {"model", "messages"} \cup nine
                     /\ \A f \in nine : kw[f] = Supplied(Val(hp), f)

\* A call for a request whose hyperparameters hold an undeclared key.
C6_Witness ==
    \E r \in Reqs :
        /\ upstream[r] # <<>>
        /\ Val(body[r]).hyperparams # None
        /\ Val(Val(body[r]).hyperparams)["seed"] = Some(42)

\* C7: GET / can be answered in every state, its answer is 200 with the fixed
\* payload, and answering it issues no upstream call.
C7_HealthAlways200 ==
    /\ [](/\ ENABLED health_check
          /\ health # None =>
                 /\ Val(health).status = 200
                 /\ Val(health).payload = [status |-> "healthy", service |-> "MCS-Agent"])
    /\ [][health' # health => upstream' = upstream]_vars

\* GET / answered while one request hangs and another has failed.
C7_Witness ==
    /\ health # None
    /\ Val(health).inflight >= 1
    /\ Val(health).failing
    /\ \E r \in Reqs : pc[r] = "hung"

\* C8: a suspended or hung request blocks no other: every request not yet
\* started can start and every awaiting one can get its outcome; and each
\* request's upstream call carries its own model name, hyperparameters and
\* messages, and its 200 carries the choices its own call returned.
C8_Independent ==
    \A r \in Reqs :
        /\ pc[r] = "idle" =>
               \E raw \in ConcRequests : ENABLED PostChat(r, raw)
        /\ pc[r] = "awaiting" =>
               /\ \A e \in UpstreamErrors : ENABLED UpstreamRaises(r, e)
               /\ \/ ENABLED UpstreamStreams(r)
                  \/ \A c \in ConcChoiceSeqs : ENABLED UpstreamReturns(r, c)
        /\ upstream[r] # <<>> =>
               LET kw == upstream[r][1]
                   own == Val(body[r])
               IN  /\ kw["model"] = IF own.model_name \in {None, Some(<<>>)}
                                    THEN config.llm_name
                                    ELSE Val(own.model_name)
                   /\ kw["messages"] = own.messages
                   /\ ("stream" \in DOMAIN kw) <=> (own.hyperparams # None)
                   /\ own.hyperparams # None =>
                          \A f \in DeclaredFields :
                              kw[f] = Supplied(Val(own.hyperparams), f)
        /\ (response[r] # None /\ Val(response[r]).status = 200) =>
               /\ reply[r] # None
               /\ Val(response[r]).choices = Val(reply[r]).choices

\* One request hangs while another, which called a different model, got its 200.
C8_Witness ==
    \E r, q \in Reqs :
        /\ pc[r] = "hung"
        /\ response[q] # None
        /\ Val(response[q]).status = 200
        /\ upstream[r][1]["model"] # upstream[q][1]["model"]

\* C9: before the handler raises its 500, the task has emitted, in this order,
\* the info record "Received chat request", the adapter's error record "Chat
\* completion failed" (model, error type, error message) and the handler's
\* error record "Chat request failed"; and every 500 with a detail is raised so.
C9_LoggedBefore500 ==
    \A r \in Reqs :
        /\ \A k \in 1..Len(events[r]) :
               events[r][k].msg = "raise HTTPException" =>
                   \E h, i, j \in 1..(k - 1) :
                       /\ h < i /\ i < j
                       /\ events[r][h].msg = "Received chat request"
                       /\ events[r][h].level = "INFO"
                       /\ events[r][i].msg = "Chat completion failed"
                       /\ events[r][i].level = "ERROR"
                       /\ events[r][i].extra.model = upstream[r][1]["model"]
                       /\ Val(reply[r]).kind = "raise" =>
                              /\ events[r][i].extra.error_type
                                     = Val(Val(reply[r]).error).type
                              /\ events[r][i].extra.error_message
                                     = Val(Val(reply[r]).error).msg
                       /\ events[r][j].msg = "Chat request failed"
                       /\ events[r][j].level = "ERROR"
        /\ (response[r] # None /\ Val(response[r]).kind = "detail") =>
               Emitted(r, "raise HTTPException")

\* A request answered by the handler's 500.
C9_Witness ==
    \E r \in Reqs :
        /\ response[r] # None
        /\ Val(response[r]).kind = "detail"
        /\ Emitted(r, "raise HTTPException")

\* C10: an exception raised in the handler before the upstream call (the
\* service was never built) is not a ChatModelError and is not caught: it leaves
\* the handler, no "Chat request failed" record is emitted and the response
\* carries no "Error chatting with model" detail.
C10_OthersPropagate ==
    \A r \in Reqs :
        (request[r] # None /\ service[r] = None) =>
            /\ Emitted(r, "exception propagates")
            /\ ~Emitted(r, "Chat request failed")
            /\ ~Emitted(r, "raise HTTPException")
            /\ response[r] # None
            /\ Val(response[r]).kind = "unhandled"
            /\ ~HasPrefix(Val(response[r]).detail, <<"Error chatting with model: ">>)

\* A request whose service could not be built, answered by the framework.
C10_Witness ==
    \E r \in Reqs :
        /\ request[r] # None
        /\ service[r] = None
        /\ response[r] # None
        /\ Val(response[r]).status = 500

====
